---- MODULE Spec2Model ----
(***************************************************************************)
(* The embedded key-value store of kvdb (store/badger/badger.go): a write  *)
(* buffer (a badger WriteBatch) in front of an ordered durable map, with   *)
(* values compressed at rest, and the streaming reads Scan, Prefix and     *)
(* BatchGet, each produced by its own goroutine into a store.Iterator.     *)
(*                                                                         *)
(* The storage engine is seen through the calls badger.go makes on it:     *)
(* SetEntry answers nil, ErrTxnTooBig (the entry does not fit in what is   *)
(* left of the transaction) or another error (here ErrEmptyKey, the empty  *)
(* key); Flush commits the staged entries as a unit or fails and commits   *)
(* nothing; a View reads a snapshot of the durable map.                    *)
(***************************************************************************)
EXTENDS Integers, Sequences, FiniteSets, TLC

\* ---------------------------------------------------------------- bounds
\* Capacity of one engine transaction, in bytes of key plus stored value.
MaxBatchSize == 6
\* Number of Put calls in one run.
MaxPuts == 3
\* Capacity of an iterator's channel.
ChanCap == 2
\* Largest limit given to Scan.
MaxLimit == 2
\* Largest number of keys given to BatchGet.
MaxRequest == 2

\* Frames the connection holds between server and client.
WireCap == 2

\* ------------------------------------------------------------ data model
\* Keys are byte sequences; the four below give two keys sharing a prefix
\* with a third, and one key outside it.
Keys == {<<1>>, <<1, 1>>, <<1, 2>>, <<2>>}
\* The empty key is the write the engine refuses for another reason than
\* capacity; reads are over the non-empty keys.
EmptyKey == <<>>
PutKeys == Keys \cup {EmptyKey}
\* The keys a write may be staged on while a streaming read runs.
StagedKeys == {<<1, 2>>}

\* A value that no transaction can hold, whatever the key.
BigVal == [i \in 1..MaxBatchSize |-> 9]
Values == {<<>>, <<7>>, BigVal}

\* No durable value (no value put is these bytes).
NoVal == <<0, 0>>

\* ------------------------------------------------------------ compressor
\* store.Compressor: Compress puts a header before the value, Decompress
\* fails on bytes without it and strips it otherwise.
Magic == 5

Compress(v) == <<Magic>> \o v

DecompressOk(c) == Len(c) >= 1 /\ c[1] = Magic

Decompress(c) == Tail(c)

\* ----------------------------------------------------------------- state
VARIABLES
    db,          \* the engine's durable map: key -> stored bytes, or NoVal
    writeBatch,  \* Store.writeBatch: nil, or the entries staged in it
    closed,      \* Close was called
    ret,         \* what the last call on the store returned
    nPuts,       \* number of Put calls so far; a staged entry carries its call's number
    acked,       \* key -> the value of the last Put on it that returned nil
    committed,   \* numbers of the Put calls whose entry an engine commit made durable
    dup,         \* some entry was committed by two engine commits
    flushedOk,   \* the last Put or FlushPuts call was a FlushPuts that returned nil
    autoFlushed  \* some Put committed the buffer because the transaction was full

storeVars == <<db, writeBatch, closed, ret, nPuts, acked, committed, dup, flushedOk,
               autoFlushed>>

\* One streaming call (Scan, Prefix or BatchGet) is followed per run: its
\* store.Iterator, the goroutine producing into it and its consumer.
VARIABLES
    itCall,      \* the call: its kind and arguments
    pc,          \* where the producing goroutine stands
    view,        \* the snapshot its read-only View reads
    pos,         \* the cursor: an index in the snapshot's keys, or in the requested keys
    count,       \* Scan's and Prefix's count
    perr,        \* the error the View returned, to be pushed
    chan,        \* the iterator's channel of items
    term,        \* the iterator's terminal signal: "none", "finished" or the error
    pushed,      \* every push of the producer, in order
    seen,        \* the items the consumer has received, in order
    consTerm,    \* the terminal signal the consumer has observed
    cancelled,   \* the caller's context is cancelled
    cancelAt     \* where the producer and the consumer stood when it was cancelled

itVars == <<itCall, pc, view, pos, count, perr, chan, term, pushed, seen, consTerm,
            cancelled, cancelAt>>

\* The block a caller hands to the block writer.
VARIABLES
    blk,         \* the caller's block: its id and its three lists
    held,        \* the block as it was when putBlock was called
    blkErr       \* what putBlock returned, "none" before any call

blockVars == <<blk, held, blkErr>>

\* Callers that use the Store at the same time.
VARIABLES
    wr,          \* per caller: the call it is in and where it stands in it
    ackedIds,    \* the writes whose Put returned nil
    overlap      \* a call began while another caller's call was running

raceVars == <<wr, ackedIds, overlap>>

\* A netkv client and the server that wraps the Store.
VARIABLES
    req,         \* the request the server is handling, NoReq between calls
    wire,        \* the frames sent by the server and not yet read by the client
    sent,        \* the number of KV frames the server sent for the stream
    cliRet,      \* what the client's last Put, FlushPuts or Get returned
    cliPushed    \* what the client pushed into its local Iterator

netVars == <<req, wire, sent, cliRet, cliPushed>>

extVars == <<blockVars, raceVars, netVars>>

vars == <<storeVars, itVars, extVars>>

NilBatch == [open |-> FALSE, entries |-> <<>>]

NewWriteBatch == [open |-> TRUE, entries |-> <<>>]

NoRet == [op |-> "none", key |-> <<>>, val |-> <<>>, err |-> "nil", staged |-> FALSE,
          auto |-> FALSE]

\* ---------------------------------------------------------------- engine
RECURSIVE SumSizes(_)
SumSizes(es) ==
    IF es = <<>> THEN 0
    ELSE Len(es[1].key) + Len(es[1].value) + SumSizes(Tail(es))

\* WriteBatch.SetEntry as Put sees it: the error it returns.
SetEntry(wb, e) ==
    IF e.key = EmptyKey THEN "ErrEmptyKey"
    ELSE IF SumSizes(wb.entries) + Len(e.key) + Len(e.value) > MaxBatchSize
         THEN "ErrTxnTooBig"
    ELSE "nil"

Staged(wb, e) == [wb EXCEPT !.entries = Append(@, e)]

\* The durable map after the engine commits the entries of wb, in order.
Flush(d, wb) ==
    [k \in Keys |->
        LET idx == {i \in 1..Len(wb.entries) : wb.entries[i].key = k}
        IN IF idx = {} THEN d[k]
           ELSE wb.entries[CHOOSE i \in idx : \A j \in idx : j <= i].value]

Ids(wb) == {wb.entries[i].id : i \in 1..Len(wb.entries)}

\* An engine commit may fail (I/O) only when it has something to write. A
\* failed commit makes nothing durable, and the Store keeps the buffer: it
\* replaces s.writeBatch only after a commit that succeeded.
FlushOutcomes(wb) == IF wb.entries = <<>> THEN {"nil"} ELSE {"nil", "io"}

\* ----------------------------------------------------------------- store
\* What one call changes: the write buffer and the durable map it leaves, the
\* entries its engine commit (if any) made durable, the error it returns, and
\* whether the entry is in the buffer when it returns.
Outcome(wb, d, flushed, err, staged) ==
    [batch |-> wb, db |-> d, flushed |-> flushed, err |-> err, staged |-> staged]

\* Put that, after its commit, stages into the buffer it just committed.
PutOutcome_StaleBatch(wb, d, e, ferr) ==
    LET wb0 == IF ~wb.open THEN NewWriteBatch ELSE wb
        err == SetEntry(wb0, e)
    IN IF err = "ErrTxnTooBig"
       THEN IF ferr # "nil"
            THEN Outcome(wb0, d, {}, ferr, FALSE)
            ELSE IF SetEntry(NewWriteBatch, e) # "nil"
                 THEN Outcome(wb0, Flush(d, wb0), Ids(wb0), "after txn too big", FALSE)
                 ELSE Outcome(Staged(wb0, e), Flush(d, wb0), Ids(wb0), "nil", TRUE)
       ELSE IF err = "nil"
            THEN Outcome(Staged(wb0, e), d, {}, "nil", TRUE)
            ELSE Outcome(wb0, d, {}, "nil", FALSE)

\* Put that commits a full buffer and does not stage again.
PutOutcome_NoRetry(wb, d, e, ferr) ==
    LET wb0 == IF ~wb.open THEN NewWriteBatch ELSE wb
        err == SetEntry(wb0, e)
    IN IF err = "ErrTxnTooBig"
       THEN IF ferr # "nil"
            THEN Outcome(wb0, d, {}, ferr, FALSE)
            ELSE Outcome(NewWriteBatch, Flush(d, wb0), Ids(wb0),
                         "after txn too big", FALSE)
       ELSE IF err = "nil"
            THEN Outcome(Staged(wb0, e), d, {}, "nil", TRUE)
            ELSE Outcome(wb0, d, {}, "nil", FALSE)

\* Put, given the outcome ferr of the engine commit it may need.
PutOutcome(wb, d, e, ferr) ==
    LET wb0 == IF ~wb.open THEN NewWriteBatch ELSE wb
        err == SetEntry(wb0, e)
    IN IF err = "ErrTxnTooBig"
       THEN IF ferr # "nil"
            THEN Outcome(wb0, d, {}, ferr, FALSE)
            ELSE IF SetEntry(NewWriteBatch, e) # "nil"
                 THEN Outcome(NewWriteBatch, Flush(d, wb0), Ids(wb0),
                              "after txn too big", FALSE)
                 ELSE Outcome(Staged(NewWriteBatch, e), Flush(d, wb0), Ids(wb0),
                              "nil", TRUE)
       ELSE IF err = "nil"
            THEN Outcome(Staged(wb0, e), d, {}, "nil", TRUE)
            ELSE Outcome(wb0, d, {}, "nil", FALSE)

\* Put that stages the value as given.
PutValue_Raw(v) == v

\* The bytes Put stages for value v.
PutValue(v) == Compress(v)

\* What Put does to the Store.
StorePut(k, v) ==
    /\ ~closed
    /\ nPuts < MaxPuts
    /\ LET e == [id |-> nPuts + 1, key |-> k, value |-> PutValue(v)]
           wb0 == IF ~writeBatch.open THEN NewWriteBatch ELSE writeBatch
       IN \E ferr \in FlushOutcomes(wb0) :
            LET o == PutOutcome(writeBatch, db, e, ferr)
            IN /\ writeBatch' = o.batch
               /\ db' = o.db
               /\ committed' = committed \cup o.flushed
               /\ dup' = (dup \/ (o.flushed \cap committed # {}))
               /\ ret' = [op |-> "Put", key |-> k, val |-> v, err |-> o.err,
                          staged |-> o.staged, auto |-> o.flushed # {}]
               /\ acked' = IF o.err = "nil" THEN [acked EXCEPT ![k] = v] ELSE acked
               /\ autoFlushed' = (autoFlushed \/ o.flushed # {})
    /\ nPuts' = nPuts + 1
    /\ flushedOk' = FALSE
    /\ UNCHANGED closed

Put(k, v) ==
    /\ StorePut(k, v)
    /\ UNCHANGED <<itVars, extVars>>

\* FlushPuts that keeps the buffer it committed.
FlushPutsOutcome_KeepBatch(wb, d, ferr) ==
    IF ~wb.open
    THEN Outcome(wb, d, {}, "nil", FALSE)
    ELSE IF ferr # "nil"
         THEN Outcome(wb, d, {}, ferr, FALSE)
         ELSE Outcome(wb, Flush(d, wb), Ids(wb), "nil", FALSE)

\* FlushPuts without the nil check of its buffer.
FlushPutsOutcome_NoNilCheck(wb, d, ferr) ==
    IF ~wb.open
    THEN Outcome(wb, d, {}, "nil pointer", FALSE)
    ELSE IF ferr # "nil"
         THEN Outcome(wb, d, {}, ferr, FALSE)
         ELSE Outcome(NewWriteBatch, Flush(d, wb), Ids(wb), "nil", FALSE)

\* FlushPuts, given the outcome ferr of its engine commit.
FlushPutsOutcome(wb, d, ferr) ==
    IF ~wb.open
    THEN Outcome(wb, d, {}, "nil", FALSE)
    ELSE IF ferr # "nil"
         THEN Outcome(wb, d, {}, ferr, FALSE)
         ELSE Outcome(NewWriteBatch, Flush(d, wb), Ids(wb), "nil", FALSE)

\* What FlushPuts does to the Store.
StoreFlushPuts ==
    /\ ~closed
    /\ \E ferr \in FlushOutcomes(writeBatch) :
         LET o == FlushPutsOutcome(writeBatch, db, ferr)
         IN /\ writeBatch' = o.batch
            /\ db' = o.db
            /\ committed' = committed \cup o.flushed
            /\ dup' = (dup \/ (o.flushed \cap committed # {}))
            /\ ret' = [NoRet EXCEPT !.op = "FlushPuts", !.err = o.err]
            /\ flushedOk' = (o.err = "nil")
    /\ UNCHANGED <<closed, nPuts, acked, autoFlushed>>

FlushPuts ==
    /\ StoreFlushPuts
    /\ UNCHANGED <<itVars, extVars>>

\* Get that returns the engine's own error for a missing key.
GetOutcome_RawMiss(d, k) ==
    IF d[k] = NoVal
    THEN [val |-> <<>>, err |-> "ErrKeyNotFound"]
    ELSE IF ~DecompressOk(d[k])
         THEN [val |-> d[k], err |-> "decompress"]
         ELSE [val |-> Decompress(d[k]), err |-> "nil"]

\* A Get that reads through the write buffer.
GetOutcome_ReadsBuffer(d, k) ==
    LET b == Flush(d, writeBatch)
    IN IF b[k] = NoVal
       THEN [val |-> <<>>, err |-> "ErrNotFound"]
       ELSE IF ~DecompressOk(b[k])
            THEN [val |-> b[k], err |-> "decompress"]
            ELSE [val |-> Decompress(b[k]), err |-> "nil"]

\* Get's View: the value and the error it returns.
GetOutcome(d, k) ==
    IF d[k] = NoVal
    THEN [val |-> <<>>, err |-> "ErrNotFound"]
    ELSE IF ~DecompressOk(d[k])
         THEN [val |-> d[k], err |-> "decompress"]
         ELSE [val |-> Decompress(d[k]), err |-> "nil"]

\* What Get does to the Store: nothing but its result.
StoreGet(k) ==
    /\ ~closed
    /\ ret' = [NoRet EXCEPT !.op = "Get", !.key = k, !.val = GetOutcome(db, k).val,
                            !.err = GetOutcome(db, k).err]
    /\ UNCHANGED <<db, writeBatch, closed, nPuts, acked, committed, dup, flushedOk,
                   autoFlushed>>

Get(k) ==
    /\ StoreGet(k)
    /\ UNCHANGED <<itVars, extVars>>

\* Close closes the engine; the write buffer is not touched.
CloseBatch(wb) == wb

Close ==
    /\ ~closed
    /\ closed' = TRUE
    /\ writeBatch' = CloseBatch(writeBatch)
    /\ \E cerr \in {"nil", "io"} : ret' = [NoRet EXCEPT !.op = "Close", !.err = cerr]
    /\ UNCHANGED <<db, nPuts, acked, committed, dup, flushedOk, autoFlushed,
                   itVars, extVars>>

\* ------------------------------------------------------------ byte order
\* bytes.Compare: -1, 0 or 1.
RECURSIVE Compare(_, _)
Compare(a, b) ==
    IF a = <<>> THEN (IF b = <<>> THEN 0 ELSE -1)
    ELSE IF b = <<>> THEN 1
    ELSE IF a[1] < b[1] THEN -1
    ELSE IF a[1] > b[1] THEN 1
    ELSE Compare(Tail(a), Tail(b))

HasPrefix(k, p) == Len(k) >= Len(p) /\ SubSeq(k, 1, Len(p)) = p

RECURSIVE SortKeys(_)
SortKeys(S) ==
    IF S = {} THEN <<>>
    ELSE LET m == CHOOSE x \in S : \A y \in S : Compare(x, y) <= 0
         IN <<m>> \o SortKeys(S \ {m})

\* The keys an engine iterator over the snapshot d walks, in its order.
ViewKeys(d) == SortKeys({k \in Keys : d[k] # NoVal})

\* Iterator.Seek: the first position at or after key; past the end if none.
Seek(ks, key) ==
    LET idx == {i \in 1..Len(ks) : Compare(ks[i], key) >= 0}
    IN IF idx = {} THEN Len(ks) + 1 ELSE CHOOSE i \in idx : \A j \in idx : i <= j

Valid(ks, i) == i >= 1 /\ i <= Len(ks)

\* ------------------------------------------------------- store.Iterator
NoCall == [kind |-> "none", start |-> <<>>, end |-> <<>>, limit |-> 0,
           prefix |-> <<>>, keys |-> <<>>]

NoCancel == [pc |-> "none", pushed |-> 0, seen |-> 0, remain |-> 0]

KV(k, v) == [key |-> k, value |-> v]

Item(k, v) == [t |-> "item", key |-> k, value |-> v, err |-> "nil"]

Terminal(t, err) == [t |-> t, key |-> <<>>, value |-> <<>>, err |-> err]

Items(evs) == SelectSeq(evs, LAMBDA ev : ev.t = "item")

Terminals(evs) == SelectSeq(evs, LAMBDA ev : ev.t # "item")

KVs(evs) == [i \in 1..Len(evs) |-> KV(evs[i].key, evs[i].value)]

\* ------------------------------------------------- users of the store
NoBlock == [Id |-> 0, Transactions |-> <<>>, TransactionTraces |-> <<>>,
            ImplicitTransactionOps |-> <<>>]

\* The callers that share the Store.
Writers == {1, 2}

NoWrite == [pc |-> "idle", op |-> "none", id |-> 0, key |-> <<>>, value |-> <<>>,
            sawNil |-> FALSE, before |-> {}, err |-> "nil"]

NoReq == [op |-> "none", key |-> <<>>, value |-> <<>>, call |-> NoCall, served |-> FALSE]

\* No block has been handed to the block writer, no caller is in a call, and
\* the connection is idle.
InitExt ==
    /\ blk = NoBlock
    /\ held = NoBlock
    /\ blkErr = "none"
    /\ wr = [w \in Writers |-> NoWrite]
    /\ ackedIds = {}
    /\ overlap = FALSE
    /\ req = NoReq
    /\ wire = <<>>
    /\ sent = 0
    /\ cliRet = NoRet
    /\ cliPushed = <<>>

InitIterator ==
    /\ itCall = NoCall
    /\ pc = "idle"
    /\ view = [k \in Keys |-> NoVal]
    /\ pos = 0
    /\ count = 0
    /\ perr = "nil"
    /\ chan = <<>>
    /\ term = "none"
    /\ pushed = <<>>
    /\ seen = <<>>
    /\ consTerm = "none"
    /\ cancelled = FALSE
    /\ cancelAt = NoCancel

\* store.NewIterator(ctx), and the goroutine started on it.
NewIterator(call) ==
    /\ pc = "idle"
    /\ itCall' = call
    /\ pc' = "start"
    /\ UNCHANGED <<storeVars, extVars, view, pos, count, perr, chan, term, pushed, seen,
                   consTerm, cancelled, cancelAt>>

Scan(start, exclusiveEnd, limit) ==
    NewIterator([NoCall EXCEPT !.kind = "Scan", !.start = start,
                               !.end = exclusiveEnd, !.limit = limit])

Prefix(prefix) == NewIterator([NoCall EXCEPT !.kind = "Prefix", !.prefix = prefix])

BatchGet(keys) == NewIterator([NoCall EXCEPT !.kind = "BatchGet", !.keys = keys])

\* A BatchGet that walks its request from the last key to the first.
CurKey_Reversed ==
    IF itCall.kind = "BatchGet"
    THEN itCall.keys[Len(itCall.keys) - pos + 1]
    ELSE ViewKeys(view)[pos]

\* The key the producer's cursor is on.
CurKey == IF itCall.kind = "BatchGet" THEN itCall.keys[pos] ELSE ViewKeys(view)[pos]

\* s.db.View opens its snapshot; Scan and Prefix seek their engine iterator.
OpenView ==
    /\ pc = "start"
    /\ view' = db
    /\ pos' = CASE itCall.kind = "Scan" -> Seek(ViewKeys(db), itCall.start)
                [] itCall.kind = "Prefix" -> Seek(ViewKeys(db), itCall.prefix)
                [] OTHER -> 1
    /\ pc' = "loop"
    /\ UNCHANGED <<storeVars, extVars, itCall, count, perr, chan, term, pushed, seen,
                   consTerm, cancelled, cancelAt>>

\* Scan's loop condition.
ScanCond(ks, i, exclusiveEnd) == Valid(ks, i) /\ Compare(ks[i], exclusiveEnd) = -1

\* A loop that tests it.Valid() where ValidForPrefix(prefix) is meant.
PrefixCond_Valid(ks, i, prefix) == Valid(ks, i)

\* Prefix's loop condition, it.ValidForPrefix(prefix).
PrefixCond(ks, i, prefix) == Valid(ks, i) /\ HasPrefix(ks[i], prefix)

\* A producer that never sees the cancellation.
CtxErr_Never(canc) == "nil"

\* sit.Context().Err(), and kr.Context().Err() in Prefix.
CtxErr(canc) == IF canc THEN "canceled" ELSE "nil"

\* A break that comes one item late.
ScanBreak_OneLate(cnt, limit) == cnt > limit /\ limit > 0

\* Scan's break after a push.
ScanBreak(cnt, limit) == cnt = limit /\ limit > 0

\* The head of one iteration of Scan or Prefix: the loop condition, count++
\* and the check of the context.
LoopHead ==
    /\ pc = "loop"
    /\ itCall.kind \in {"Scan", "Prefix"}
    /\ LET more == IF itCall.kind = "Scan"
                   THEN ScanCond(ViewKeys(view), pos, itCall.end)
                   ELSE PrefixCond(ViewKeys(view), pos, itCall.prefix)
       IN IF ~more
          THEN pc' = "finish" /\ UNCHANGED <<count, perr>>
          ELSE /\ count' = count + 1
               /\ IF CtxErr(cancelled) # "nil"
                  THEN pc' = "fail" /\ perr' = CtxErr(cancelled)
                  ELSE pc' = "push" /\ perr' = perr
    /\ UNCHANGED <<storeVars, extVars, itCall, view, pos, chan, term, pushed, seen,
                   consTerm, cancelled, cancelAt>>

\* A BatchGet that passes over a key it cannot read.
BatchHead_SkipMissing ==
    /\ pc = "loop"
    /\ itCall.kind = "BatchGet"
    /\ IF pos > Len(itCall.keys)
       THEN pc' = "finish" /\ pos' = pos
       ELSE IF view[itCall.keys[pos]] = NoVal
            THEN pc' = "loop" /\ pos' = pos + 1
            ELSE pc' = "push" /\ pos' = pos
    /\ UNCHANGED <<storeVars, extVars, itCall, view, perr, count, chan, term, pushed, seen,
                   consTerm, cancelled, cancelAt>>

\* The head of one iteration of BatchGet: the range over keys and txn.Get.
BatchHead ==
    /\ pc = "loop"
    /\ itCall.kind = "BatchGet"
    /\ IF pos > Len(itCall.keys)
       THEN pc' = "finish" /\ perr' = perr
       ELSE IF view[itCall.keys[pos]] = NoVal
            THEN pc' = "fail" /\ perr' = "ErrKeyNotFound"
            ELSE pc' = "push" /\ perr' = perr
    /\ UNCHANGED <<storeVars, extVars, itCall, view, pos, count, chan, term, pushed, seen,
                   consTerm, cancelled, cancelAt>>

\* A loop that, after a push, ends its goroutine without a terminal signal.
AfterPush_SilentReturn ==
    IF itCall.kind = "Scan" /\ ScanBreak(count, itCall.limit)
    THEN [pc |-> "done", pos |-> pos]
    ELSE [pc |-> "loop", pos |-> pos + 1]

\* Where the loop goes after a push.
AfterPush ==
    IF itCall.kind = "Scan" /\ ScanBreak(count, itCall.limit)
    THEN [pc |-> "finish", pos |-> pos]
    ELSE [pc |-> "loop", pos |-> pos + 1]

\* ValueCopy, Decompress and PushItem of the item under the cursor; PushItem
\* waits for room in the channel.
PushItem ==
    /\ pc = "push"
    /\ IF ~DecompressOk(view[CurKey])
       THEN /\ pc' = "fail"
            /\ perr' = "decompress"
            /\ UNCHANGED <<pos, chan, pushed>>
       ELSE /\ Len(chan) < ChanCap
            /\ chan' = Append(chan, KV(CurKey, Decompress(view[CurKey])))
            /\ pushed' = Append(pushed, Item(CurKey, Decompress(view[CurKey])))
            /\ pc' = AfterPush.pc
            /\ pos' = AfterPush.pos
            /\ perr' = perr
    /\ UNCHANGED <<storeVars, extVars, itCall, view, count, term, seen, consTerm,
                   cancelled, cancelAt>>

\* The View returned nil.
PushFinished ==
    /\ pc = "finish"
    /\ term' = "finished"
    /\ pushed' = Append(pushed, Terminal("finished", "nil"))
    /\ pc' = "done"
    /\ UNCHANGED <<storeVars, extVars, itCall, view, pos, count, perr, chan, seen, consTerm,
                   cancelled, cancelAt>>

\* A goroutine that goes on to PushFinished after PushError.
AfterPushError_FallThrough == "finish"

\* Where the goroutine goes after PushError: it returns.
AfterPushError == "done"

\* The View returned an error.
PushError ==
    /\ pc = "fail"
    /\ term' = perr
    /\ pushed' = Append(pushed, Terminal("error", perr))
    /\ pc' = AfterPushError
    /\ UNCHANGED <<storeVars, extVars, itCall, view, pos, count, perr, chan, seen, consTerm,
                   cancelled, cancelAt>>

\* The consumer's Next: the next item, or the terminal signal once the
\* channel is drained.
ConsumerNext ==
    /\ \/ /\ chan # <<>>
          /\ seen' = Append(seen, Head(chan))
          /\ chan' = Tail(chan)
          /\ consTerm' = consTerm
       \/ /\ chan = <<>>
          /\ term # "none"
          /\ consTerm = "none"
          /\ consTerm' = term
          /\ UNCHANGED <<seen, chan>>
    /\ UNCHANGED <<storeVars, extVars, itCall, pc, view, pos, count, perr, term, pushed,
                   cancelled, cancelAt>>

\* What Scan and Prefix are to yield from the snapshot d, in order.
RangeKeys(call, d) ==
    IF call.kind = "Scan"
    THEN SortKeys({k \in Keys : /\ d[k] # NoVal
                                /\ Compare(call.start, k) <= 0
                                /\ Compare(k, call.end) < 0})
    ELSE SortKeys({k \in Keys : d[k] # NoVal /\ HasPrefix(k, call.prefix)})

Expected(call, d) ==
    LET ks == IF call.kind = "BatchGet" THEN call.keys ELSE RangeKeys(call, d)
        n == IF call.kind = "Scan" /\ call.limit > 0 /\ call.limit < Len(ks)
             THEN call.limit ELSE Len(ks)
    IN [i \in 1..n |-> KV(ks[i], Decompress(d[ks[i]]))]

\* The caller cancels the context it gave the call.
Cancel ==
    /\ pc # "idle"
    /\ ~cancelled
    /\ cancelled' = TRUE
    /\ cancelAt' = [pc |-> pc, pushed |-> Len(Items(pushed)), seen |-> Len(seen),
                    remain |-> IF pc = "start" THEN 0
                               ELSE Len(Expected(itCall, view)) - Len(Items(pushed))]
    /\ UNCHANGED <<storeVars, extVars, itCall, pc, view, pos, count, perr, chan, term,
                   pushed, seen, consTerm>>


\* ------------------------------------------------------------- the store
InitStore ==
    /\ db = [k \in Keys |-> NoVal]
    /\ writeBatch = NilBatch
    /\ closed = FALSE
    /\ ret = NoRet
    /\ nPuts = 0
    /\ acked = [k \in PutKeys |-> NoVal]
    /\ committed = {}
    /\ dup = FALSE
    /\ flushedOk = FALSE
    /\ autoFlushed = FALSE

Init == InitStore /\ InitIterator /\ InitExt

Next ==
    \/ \E k \in PutKeys, v \in Values : Put(k, v)
    \/ FlushPuts
    \/ \E k \in Keys : Get(k)
    \/ Close

Spec == Init /\ [][Next]_vars

\* ------------------------------------------------- properties of the store
\* The write of value v on key k is one an empty write buffer accepts.
Fits(k, v) == SetEntry(NewWriteBatch, [id |-> 0, key |-> k, value |-> Compress(v)]) = "nil"

\* C1: round trip. Once a Put on a non-empty key has returned nil and a
\* FlushPuts after it has returned nil, Get on that key returns no error and
\* exactly the value that was put.
C1_RoundTrip ==
    (ret.op = "Get" /\ flushedOk /\ acked[ret.key] # NoVal)
        => (ret.err = "nil" /\ ret.val = acked[ret.key])

C1_Witness ==
    /\ ret.op = "Get"
    /\ flushedOk
    /\ acked[ret.key] = <<7>>
    /\ ret.err = "nil"
    /\ ret.val = <<7>>

\* C2: auto-flush transparency. A Put of a write that fits in an empty buffer
\* returns an error only when the engine commit it needed failed, and is
\* staged when it returns nil; the last value written on every key is in the
\* buffer or durable, and durable after a FlushPuts that returned nil; no
\* entry is committed twice.
C2_AutoFlushTransparent ==
    /\ (ret.op = "Put" /\ Fits(ret.key, ret.val))
          => (ret.err \in {"nil", "io"} /\ (ret.err = "nil" => ret.staged))
    /\ \A k \in Keys : acked[k] # NoVal => Flush(db, writeBatch)[k] = Compress(acked[k])
    /\ flushedOk => \A k \in Keys : acked[k] # NoVal => db[k] = Compress(acked[k])
    /\ ~dup

C2_Witness ==
    /\ autoFlushed
    /\ flushedOk
    /\ nPuts >= 2
    /\ Cardinality(committed) = nPuts
    /\ \E k \in Keys : acked[k] # NoVal /\ db[k] = Compress(acked[k])

\* C4: Get returns ErrNotFound exactly when the key has no durable value, and
\* then no other error and no hit; when the key is durable it returns the
\* value and nil.
C4_GetNotFound ==
    ret.op = "Get" =>
        /\ (ret.err = "ErrNotFound") <=> (db[ret.key] = NoVal)
        /\ ret.err \in {"nil", "ErrNotFound"}
        /\ db[ret.key] # NoVal => (ret.err = "nil" /\ Compress(ret.val) = db[ret.key])

\* A key written and not yet flushed is not found.
C4_Witness ==
    /\ ret.op = "Get"
    /\ ret.err = "ErrNotFound"
    /\ acked[ret.key] # NoVal

\* C7: flush durability. When FlushPuts has returned nil the write buffer is
\* empty, every write staged before is durable and read back by a View (Get's
\* point read, the key walk of Scan and Prefix), and a FlushPuts that follows
\* commits nothing.
C7_FlushDurable ==
    (ret.op = "FlushPuts" /\ ret.err = "nil") =>
        /\ writeBatch.entries = <<>>
        /\ \A k \in Keys : acked[k] # NoVal =>
              /\ GetOutcome(db, k) = [val |-> acked[k], err |-> "nil"]
              /\ \E i \in 1..Len(ViewKeys(db)) : ViewKeys(db)[i] = k
        /\ FlushPutsOutcome(writeBatch, db, "nil").flushed = {}
        /\ FlushPutsOutcome(writeBatch, db, "nil").db = db

C7_Witness ==
    /\ ret.op = "FlushPuts"
    /\ ret.err = "nil"
    /\ ~autoFlushed
    /\ Cardinality(committed) >= 2
    /\ \E k \in Keys : acked[k] # NoVal

\* C8: Close does not drop staged writes in silence: when Close has returned
\* nil, every entry that was in the write buffer is durable.
C8_CloseKeepsWrites ==
    (ret.op = "Close" /\ ret.err = "nil") => Ids(writeBatch) \subseteq committed

\* C9: Put surfaces staging failures: a Put whose entry is not in the write
\* buffer when it returns has returned an error.
C9_PutSurfacesErrors == (ret.op = "Put" /\ ~ret.staged) => ret.err # "nil"

IterDbs == {[k \in Keys |-> IF k \in S THEN Compress(<<7>>) ELSE NoVal] : S \in SUBSET Keys}

IterBatches ==
    {NilBatch} \cup
    {Staged(NewWriteBatch, [id |-> 1, key |-> k, value |-> Compress(<<>>)]) : k \in StagedKeys}

InitIter ==
    /\ db \in IterDbs
    /\ writeBatch \in IterBatches
    /\ closed = FALSE
    /\ ret = NoRet
    /\ nPuts = Len(writeBatch.entries)
    /\ acked = [k \in PutKeys |->
                  IF \E i \in 1..Len(writeBatch.entries) : writeBatch.entries[i].key = k
                  THEN <<>> ELSE IF k \in Keys /\ db[k] # NoVal THEN <<7>> ELSE NoVal]
    /\ committed = {}
    /\ dup = FALSE
    /\ flushedOk = FALSE
    /\ autoFlushed = FALSE
    /\ InitIterator
    /\ InitExt

ScanStarts == {<<>>, <<1, 1>>, <<2>>}

ScanEnds == {<<1, 2>>, <<2>>, <<3>>}

Limits == (0 - 1)..MaxLimit

Prefixes == {<<>>, <<1>>, <<1, 1>>, <<3>>}

RequestKeys == {<<1>>, <<1, 2>>, <<2>>}

Requests == UNION {[1..n -> RequestKeys] : n \in 0..MaxRequest}

NextIter ==
    \/ \E start \in ScanStarts, exclusiveEnd \in ScanEnds, limit \in Limits :
          Scan(start, exclusiveEnd, limit)
    \/ \E prefix \in Prefixes : Prefix(prefix)
    \/ \E keys \in Requests : BatchGet(keys)
    \/ OpenView
    \/ LoopHead
    \/ BatchHead
    \/ PushItem
    \/ PushFinished
    \/ PushError
    \/ ConsumerNext
    \/ Cancel
    \/ FlushPuts

SpecIter == InitIter /\ [][NextIter]_vars

\* ----------------------------------------- properties of streaming reads
IsPrefixOf(a, b) == Len(a) <= Len(b) /\ SubSeq(b, 1, Len(a)) = a

PushedKVs == KVs(Items(pushed))

\* C3: Scan yields the keys of its snapshot with start <= k < exclusiveEnd in
\* ascending byte order, the first limit of them when limit > 0 and all of
\* them otherwise: what it has pushed is always a prefix of that list, and is
\* the whole list when it finishes; the consumer that sees it finish has
\* received that list.
C3_ScanYieldsRange ==
    (itCall.kind = "Scan" /\ pc \notin {"idle", "start"}) =>
        /\ IsPrefixOf(PushedKVs, Expected(itCall, view))
        /\ term = "finished" => PushedKVs = Expected(itCall, view)
        /\ consTerm = "finished" => seen = Expected(itCall, view)
        /\ term \in {"none", "finished", "canceled"}

\* A Scan cut by its limit, finished and drained.
C3_Witness ==
    /\ itCall.kind = "Scan"
    /\ itCall.limit = 1
    /\ Len(RangeKeys(itCall, view)) >= 2
    /\ consTerm = "finished"
    /\ Len(seen) = 1

\* C5: the producer of an iterator pushes at most one terminal signal, and it
\* is its last push; the consumer receives the items in the order they were
\* pushed, and has received all of them when it observes the terminal signal.
C5_IteratorProtocol ==
    /\ Len(Terminals(pushed)) <= 1
    /\ \A i \in 1..Len(pushed) : pushed[i].t # "item" => i = Len(pushed)
    /\ (term = "none") <=> (Terminals(pushed) = <<>>)
    /\ seen \o chan = PushedKVs
    /\ consTerm # "none" => (consTerm = term /\ seen = PushedKVs)

\* A BatchGet that pushed items and then its error, all received.
C5_Witness ==
    /\ itCall.kind = "BatchGet"
    /\ term = "ErrKeyNotFound"
    /\ consTerm = term
    /\ Len(seen) >= 1

\* The context of a Scan or Prefix was cancelled after the consumer had
\* received an item and while items were still to be produced.
CancelledMidway ==
    /\ itCall.kind \in {"Scan", "Prefix"}
    /\ cancelled
    /\ cancelAt.seen >= 1
    /\ cancelAt.remain >= 1

ItemsAfterCancel == Len(Items(pushed)) - cancelAt.pushed

\* C6 as stated: after such a cancellation no further item is pushed and the
\* iterator does not finish.
C6_NoItemAfterCancel ==
    CancelledMidway => (ItemsAfterCancel = 0 /\ term # "finished")

\* C6 amended: after such a cancellation the producer pushes at most one
\* further item, the one whose context check had passed before the
\* cancellation; the iterator then ends with the cancellation error, or with
\* "finished" when that item was the last one to produce.
C6_AtMostOneItemAfterCancel ==
    CancelledMidway =>
        /\ ItemsAfterCancel <= (IF cancelAt.pc = "push" THEN 1 ELSE 0)
        /\ term \in {"none", "canceled", "finished"}
        /\ term = "finished" => (cancelAt.pc = "push" /\ cancelAt.remain = 1)

\* One item after the cancellation, then the cancellation error.
C6_Witness ==
    /\ CancelledMidway
    /\ ItemsAfterCancel = 1
    /\ term = "canceled"
    /\ consTerm = "canceled"

\* Every key of the request is in the snapshot the BatchGet reads.
AllRequestedDurable == \A i \in 1..Len(itCall.keys) : view[itCall.keys[i]] # NoVal

\* C11: a BatchGet whose requested keys are all durable yields one KV per
\* requested key, in the order of the request (ascending or not, repeated keys
\* included), each with the value of its snapshot, and then finishes: what it
\* has pushed is always a prefix of that list, and its only terminal signal
\* is "finished", pushed after the whole list.
C11_BatchGetRequestOrder ==
    (itCall.kind = "BatchGet" /\ pc \notin {"idle", "start"} /\ AllRequestedDurable) =>
        /\ IsPrefixOf(PushedKVs, Expected(itCall, view))
        /\ Len(Expected(itCall, view)) = Len(itCall.keys)
        /\ \A i \in 1..Len(PushedKVs) :
              /\ PushedKVs[i].key = itCall.keys[i]
              /\ PushedKVs[i].value = Decompress(view[itCall.keys[i]])
        /\ term \in {"none", "finished"}
        /\ term = "finished" => PushedKVs = Expected(itCall, view)
        /\ consTerm = "finished" => seen = Expected(itCall, view)

\* A request in descending key order, answered after the staged write of its
\* second key was flushed, finished and drained.
C11_Witness ==
    /\ itCall.kind = "BatchGet"
    /\ itCall.keys = << <<2>>, <<1, 2>> >>
    /\ consTerm = "finished"
    /\ seen = << KV(<<2>>, <<7>>), KV(<<1, 2>>, <<>>) >>

\* A request that names the same key twice, finished and drained.
C11_WitnessRepeated ==
    /\ itCall.kind = "BatchGet"
    /\ itCall.keys = << <<1>>, <<1>> >>
    /\ consTerm = "finished"
    /\ Len(seen) = 2

\* The smallest key greater than every key that starts with the non-empty
\* prefix p: p with its last byte raised by one (the bytes here stay below 255).
PrefixEnd(p) == [p EXCEPT ![Len(p)] = @ + 1]

\* The Scan over the range of the keys that share the prefix of a Prefix call.
ScanOfPrefix(call) ==
    [NoCall EXCEPT !.kind = "Scan", !.start = call.prefix,
                   !.end = PrefixEnd(call.prefix), !.limit = 0]

\* C12: Prefix yields the keys of its snapshot that start with the prefix, in
\* ascending byte order, and no other key: every pushed key starts with the
\* prefix, what is pushed is always a prefix of that list and the whole list
\* when it finishes; for a non-empty prefix the list is the one
\* Scan(prefix, PrefixEnd(prefix), 0) yields from the same snapshot.
C12_PrefixYieldsPrefixRange ==
    (itCall.kind = "Prefix" /\ pc \notin {"idle", "start"}) =>
        /\ \A i \in 1..Len(PushedKVs) :
              /\ HasPrefix(PushedKVs[i].key, itCall.prefix)
              /\ i > 1 => Compare(PushedKVs[i - 1].key, PushedKVs[i].key) = -1
        /\ IsPrefixOf(PushedKVs, Expected(itCall, view))
        /\ term = "finished" =>
              /\ {PushedKVs[i].key : i \in 1..Len(PushedKVs)} =
                    {k \in Keys : view[k] # NoVal /\ HasPrefix(k, itCall.prefix)}
              /\ itCall.prefix # <<>> =>
                    PushedKVs = Expected(ScanOfPrefix(itCall), view)
        /\ consTerm = "finished" => seen = Expected(itCall, view)
        /\ term \in {"none", "finished", "canceled"}

\* Prefix(<<1>>) over a snapshot that also holds the key <<2>>: the three
\* keys under the prefix were received, then "finished".
C12_Witness ==
    /\ itCall.kind = "Prefix"
    /\ itCall.prefix = <<1>>
    /\ view[<<2>>] # NoVal
    /\ consTerm = "finished"
    /\ Len(seen) = 3

\* ------------------------------------------------ FlushPuts as a no-op
\* The step is a call of FlushPuts (of the actions of Spec only FlushPuts
\* leaves its own name in ret).
FlushPutsStep == ret'.op = "FlushPuts"

\* FlushPuts is called before any Put.
BeforeAnyPut == nPuts = 0

\* FlushPuts is called right after a FlushPuts that returned nil.
SecondInARow == ret.op = "FlushPuts" /\ ret.err = "nil"

\* FlushPuts is called right after a Put that auto-flushed the buffer.
RightAfterAutoFlush == ret.op = "Put" /\ ret.auto

\* The call returns nil and leaves the durable map and the set of committed
\* writes as they were.
FlushPutsNoOp ==
    /\ ret'.err = "nil"
    /\ db' = db
    /\ committed' = committed
    /\ dup' = dup

\* C13 as stated: in each of the three cases FlushPuts is a no-op.
C13_NoOpInAllThreeCases ==
    [][(FlushPutsStep /\ (BeforeAnyPut \/ SecondInARow \/ RightAfterAutoFlush))
          => FlushPutsNoOp]_vars

\* C13 amended: FlushPuts on an absent or empty buffer is a no-op that returns
\* nil, and that is the buffer it finds before any Put and right after a
\* FlushPuts that returned nil. Right after a Put that auto-flushed, the
\* buffer holds at most the write that triggered the auto-flush: FlushPuts
\* commits that write only, for the first time, or fails and commits nothing.
C13_NoOpOnEmptyBuffer ==
    [][FlushPutsStep =>
          /\ writeBatch.entries = <<>> => FlushPutsNoOp
          /\ (BeforeAnyPut \/ SecondInARow) => writeBatch.entries = <<>>
          /\ RightAfterAutoFlush =>
                /\ Len(writeBatch.entries) <= 1
                /\ Ids(writeBatch) \cap committed = {}
                /\ committed' \in {committed, committed \cup Ids(writeBatch)}
                /\ ~dup'
                /\ ret'.err = "nil" => writeBatch' = NewWriteBatch]_vars

\* FlushPuts returned nil on a fresh, empty buffer after every Put had been
\* committed, one of them by an auto-flush.
C13_Witness ==
    /\ ret.op = "FlushPuts"
    /\ ret.err = "nil"
    /\ autoFlushed
    /\ writeBatch = NewWriteBatch
    /\ nPuts = MaxPuts
    /\ Cardinality(committed) = nPuts
    /\ ~dup

\* The context of a BatchGet was cancelled while two or more of the requested
\* keys were still to be produced.
BatchGetCancelledEarly ==
    /\ itCall.kind = "BatchGet"
    /\ cancelled
    /\ Len(itCall.keys) - cancelAt.pushed >= 2

\* C16: the producer of BatchGet checks its context once per produced item:
\* after a cancellation that leaves two or more keys to produce it pushes at
\* most one further item and does not run to "finished" over the remaining
\* keys.
C16_BatchGetStopsOnCancel ==
    BatchGetCancelledEarly => (ItemsAfterCancel <= 1 /\ term # "finished")

\* ------------------------------------------ reads that fail mid-stream
\* Bytes that were not written through the store's compressor.
CorruptVal == <<7>>

\* A store opened on data of which one value does not decompress; each other
\* key is durable or absent.
CorruptDbs ==
    {[k \in Keys |-> IF k = c THEN CorruptVal
                     ELSE IF k \in S THEN Compress(<<7>>) ELSE NoVal] :
        c \in Keys, S \in SUBSET Keys}

InitCorrupt ==
    /\ db \in CorruptDbs
    /\ writeBatch = NilBatch
    /\ closed = FALSE
    /\ ret = NoRet
    /\ nPuts = 0
    /\ acked = [k \in PutKeys |-> NoVal]
    /\ committed = {}
    /\ dup = FALSE
    /\ flushedOk = FALSE
    /\ autoFlushed = FALSE
    /\ InitIterator
    /\ InitExt

SpecCorrupt == InitCorrupt /\ [][NextIter]_vars

\* The keys a call is to read from the snapshot d, in the order it reads them.
Walk(call, d) ==
    LET ks == IF call.kind = "BatchGet" THEN call.keys ELSE RangeKeys(call, d)
    IN IF call.kind = "Scan" /\ call.limit > 0 /\ call.limit < Len(ks)
       THEN SubSeq(ks, 1, call.limit) ELSE ks

\* The key k can be read from d and its value decompresses.
Readable(d, k) == d[k] # NoVal /\ DecompressOk(d[k])

\* The place in the walk of the first key that cannot be read, one past its
\* end when there is none.
FirstBad(call, d) ==
    LET w == Walk(call, d)
        bad == {i \in 1..Len(w) : ~Readable(d, w[i])}
    IN IF bad = {} THEN Len(w) + 1
       ELSE CHOOSE i \in bad : \A j \in bad : i <= j

\* The items of the keys that precede the first key that cannot be read.
ExpectedBeforeFailure(call, d) ==
    LET w == Walk(call, d)
    IN [i \in 1..(FirstBad(call, d) - 1) |-> KV(w[i], Decompress(d[w[i]]))]

ReadErrors == {"ErrKeyNotFound", "decompress"}

\* C17: when a BatchGet meets a key with no durable value, or a Scan, Prefix
\* or BatchGet an item whose value does not decompress, the items pushed are
\* those of the keys before it, in order, followed by one terminal error: no
\* item for the failing key or a later one, no "finished", and the failing
\* key is never passed over (an iterator that finishes met no such key).
C17_ReadFailureEndsStream ==
    pc \notin {"idle", "start"} =>
        LET w == Walk(itCall, view)
            fb == FirstBad(itCall, view)
        IN /\ IsPrefixOf(PushedKVs, ExpectedBeforeFailure(itCall, view))
           /\ term = "finished" => fb = Len(w) + 1
           /\ term \in ReadErrors =>
                 /\ fb <= Len(w)
                 /\ term = (IF view[w[fb]] = NoVal THEN "ErrKeyNotFound" ELSE "decompress")
                 /\ PushedKVs = ExpectedBeforeFailure(itCall, view)
                 /\ Len(Terminals(pushed)) = 1
                 /\ pushed[Len(pushed)] = Terminal("error", term)
           /\ consTerm \in ReadErrors =>
                 (consTerm = term /\ seen = ExpectedBeforeFailure(itCall, view))

\* A BatchGet whose second key has no durable value: the consumer received
\* the first key's item and then the error.
C17_Witness ==
    /\ itCall.kind = "BatchGet"
    /\ Len(itCall.keys) = 2
    /\ view[itCall.keys[1]] = Compress(<<7>>)
    /\ view[itCall.keys[2]] = NoVal
    /\ consTerm = "ErrKeyNotFound"
    /\ seen = << KV(itCall.keys[1], <<7>>) >>

\* A Scan whose second item does not decompress.
C17_WitnessDecompress ==
    /\ itCall.kind = "Scan"
    /\ consTerm = "decompress"
    /\ Len(seen) = 1

\* ------------------------------------------------ every iterator ends
\* The steps of the producing goroutine.
Producer ==
    \/ OpenView
    \/ LoopHead
    \/ BatchHead
    \/ PushItem
    \/ PushFinished
    \/ PushError

\* Stores with no write staged: every key durable, the keys under <<1>>
\* only, or no key at all.
LiveDbs ==
    {[k \in Keys |-> IF k \in S THEN Compress(<<7>>) ELSE NoVal] :
        S \in {Keys, {<<1>>, <<1, 1>>, <<1, 2>>}, {}}}

InitLive ==
    /\ InitIter
    /\ db \in LiveDbs
    /\ writeBatch = NilBatch

LiveEnds == {<<1, 2>>, <<3>>}

LivePrefixes == {<<1>>, <<3>>}

NextLive ==
    \/ \E exclusiveEnd \in LiveEnds, limit \in Limits : Scan(<<>>, exclusiveEnd, limit)
    \/ \E prefix \in LivePrefixes : Prefix(prefix)
    \/ \E keys \in Requests : BatchGet(keys)
    \/ Producer
    \/ ConsumerNext
    \/ Cancel

\* The goroutine of a call is scheduled as long as it can take a step, and
\* the consumer keeps calling Next.
SpecLive ==
    /\ InitLive
    /\ [][NextLive]_vars
    /\ WF_vars(Producer)
    /\ WF_vars(ConsumerNext)

\* The producer has stopped after pushing its one terminal signal.
ProducerEnded ==
    /\ pc = "done"
    /\ term # "none"
    /\ Len(Terminals(pushed)) = 1
    /\ pushed[Len(pushed)].t # "item"

\* C18: every Scan, Prefix or BatchGet over the store, with a consumer that
\* keeps pulling, leads to its producer having pushed exactly one terminal
\* signal and stopped, and to the consumer observing that signal.
C18_IteratorTerminates ==
    /\ (pc # "idle") ~> ProducerEnded
    /\ (pc # "idle") ~> (consTerm # "none" /\ consTerm = term)

\* A Prefix over three keys ended and was drained.
C18_Witness ==
    /\ itCall.kind = "Prefix"
    /\ ProducerEnded
    /\ consTerm = "finished"
    /\ chan = <<>>
    /\ Len(seen) = 3

\* ----------------------------------------- reads while writes are staged
\* The key <<1>> is durable; the key that is written, <<1, 2>>, is durable
\* with the value <<7>> or absent.
ReadDbs ==
    {[k \in Keys |-> IF k \in S THEN Compress(<<7>>) ELSE NoVal] :
        S \in {{<<1>>}, {<<1>>, <<1, 2>>}}}

InitRead ==
    /\ InitIter
    /\ db \in ReadDbs
    /\ writeBatch = NilBatch

\* The value the Puts write; no key holds it at the start.
NewVal == <<>>

NextRead ==
    \/ \E k \in StagedKeys : Put(k, NewVal)
    \/ FlushPuts
    \/ \E k \in StagedKeys : Get(k)
    \/ Scan(<<>>, <<3>>, 0)
    \/ Prefix(<<1>>)
    \/ \E k \in StagedKeys : BatchGet(<< <<1>>, k >>)
    \/ Producer
    \/ ConsumerNext

SpecRead == InitRead /\ [][NextRead]_vars

\* A write of key k is staged and has not been committed.
StagedUncommitted(k) ==
    \E i \in 1..Len(writeBatch.entries) :
        writeBatch.entries[i].key = k /\ writeBatch.entries[i].id \notin committed

\* C19: a staged write is not visible to reads before an explicit or
\* automatic flush commits it. Get answers from the durable map, whatever is
\* staged; a snapshot and the items read from it hold durable values only; as
\* long as no write has been committed no read returns the new value: Get and
\* BatchGet answer not-found or the old value.
C19_StagedWritesInvisible ==
    /\ ret.op = "Get" =>
          IF db[ret.key] = NoVal THEN ret.err = "ErrNotFound"
          ELSE ret.err = "nil" /\ ret.val = Decompress(db[ret.key])
    /\ \A i \in 1..Len(PushedKVs) :
          PushedKVs[i].value = Decompress(view[PushedKVs[i].key])
    /\ committed = {} =>
          /\ \A k \in Keys : db[k] # Compress(NewVal) /\ view[k] # Compress(NewVal)
          /\ ret.op = "Get" => (ret.err = "ErrNotFound" \/ ret.val = <<7>>)
          /\ \A i \in 1..Len(PushedKVs) : PushedKVs[i].value = <<7>>
          /\ \A i \in 1..Len(seen) : seen[i].value = <<7>>

\* With the write of <<1, 2>> staged and nothing committed, Get(<<1, 2>>)
\* returned the old value and a Prefix read it too.
C19_Witness ==
    /\ StagedUncommitted(<<1, 2>>)
    /\ committed = {}
    /\ ret.op = "Get"
    /\ ret.key = <<1, 2>>
    /\ ret.val = <<7>>
    /\ itCall.kind = "Prefix"
    /\ consTerm = "finished"
    /\ seen = << KV(<<1>>, <<7>>), KV(<<1, 2>>, <<7>>) >>

\* ------------------------------------------------------ the block writer
\* getRefs: the ids of the block's three lists.
getRefs(b) ==
    [implicitTrxRefs |-> b.ImplicitTransactionOps,
     trxRefs |-> b.Transactions,
     tracesRefs |-> b.TransactionTraces]

\* The block with its three lists set to nil.
Cleared(b) ==
    [b EXCEPT !.ImplicitTransactionOps = <<>>, !.Transactions = <<>>,
              !.TransactionTraces = <<>>]

\* The row putBlock writes: the block as it is then, and the three lists of
\* references.
BlockRow(b, refs) ==
    [Block |-> b, ImplicitTrxRefs |-> refs.implicitTrxRefs, TrxRefs |-> refs.trxRefs,
     TraceRefs |-> refs.tracesRefs]

\* Keys.PackBlocksKey(blk.Id).
PackBlocksKey(id) == <<id>>

\* db.enc.MustProto(blockRow): the bytes of the row, every field in turn.
MustProto(row) ==
    <<row.Block.Id>> \o row.Block.Transactions \o row.Block.TransactionTraces
        \o row.Block.ImplicitTransactionOps
        \o row.ImplicitTrxRefs \o row.TrxRefs \o row.TraceRefs

\* putBlock(ctx, b): hold the three lists, clear them, write the block row;
\* an error of the store's Put is returned at once, otherwise the lists are
\* put back.
putBlock(b) ==
    /\ StorePut(PackBlocksKey(b.Id), MustProto(BlockRow(Cleared(b), getRefs(b))))
    /\ blkErr' = IF ret'.err # "nil" THEN "put block: write to db" ELSE "nil"
    /\ blk' = IF ret'.err # "nil" THEN Cleared(b) ELSE b
    /\ held' = b
    /\ UNCHANGED <<itVars, raceVars, netVars>>

\* The blocks handed to the writer: an id and up to two transactions, one
\* trace and one implicit transaction.
Blocks ==
    [Id : {1}, Transactions : {<<>>, <<3>>, <<3, 4>>}, TransactionTraces : {<<>>, <<3>>},
     ImplicitTransactionOps : {<<>>, <<5>>}]

\* The key and the row of a transaction, written before the block row.
TrxKey == <<1, 1>>

TrxRow == <<7>>

NextBlock ==
    \/ \E b \in Blocks : putBlock(b)
    \/ Put(TrxKey, TrxRow)
    \/ FlushPuts

SpecBlock == Init /\ [][NextBlock]_vars

\* C20: when putBlock returns, with or without an error of the store's Put,
\* the block's Transactions, TransactionTraces and ImplicitTransactionOps are
\* the lists the caller passed.
C20_PutBlockRestoresBlock ==
    blkErr # "none" => blk = held

\* ------------------------------------- two callers on one write buffer
\* Put and FlushPuts, statement by statement, as two callers run them on the
\* same Store: each statement reads or writes s.writeBatch as it then is.

\* Put's test `s.writeBatch == nil` decides whether it installs a batch.
PutInstalls_Always(sawNil) == TRUE

PutInstalls(sawNil) == sawNil

\* The batch after a Flush that succeeded: it starts a new engine
\* transaction, empty.
Flushed(wb) == [wb EXCEPT !.entries = <<>>]

\* Another caller is inside a call.
OtherRunning(w) == \E o \in Writers \ {w} : wr[o].pc # "idle"

\* The call of caller w returns err.
Return(w, err) == [wr EXCEPT ![w].pc = "idle", ![w].err = err]

RaceKeys == {<<1>>, <<2>>}

\* Caller w calls Put(k, <<7>>).
CallPut(w, k) ==
    /\ wr[w].pc = "idle"
    /\ nPuts < MaxPuts
    /\ nPuts' = nPuts + 1
    /\ wr' = [wr EXCEPT ![w] = [NoWrite EXCEPT !.pc = "p_nil", !.op = "Put",
                                               !.id = nPuts + 1, !.key = k,
                                               !.value = PutValue(<<7>>)]]
    /\ overlap' = (overlap \/ OtherRunning(w))
    /\ UNCHANGED <<db, writeBatch, closed, ret, acked, committed, dup, flushedOk,
                   autoFlushed, itVars, blockVars, netVars, ackedIds>>

\* `if s.writeBatch == nil`
PutTestNil(w) ==
    /\ wr[w].pc = "p_nil"
    /\ wr' = [wr EXCEPT ![w].sawNil = ~writeBatch.open,
                        ![w].pc = IF PutInstalls(~writeBatch.open) THEN "p_new" ELSE "p_set"]
    /\ UNCHANGED <<storeVars, itVars, blockVars, netVars, ackedIds, overlap>>

\* `s.writeBatch = s.db.NewWriteBatch()`
PutNewBatch(w) ==
    /\ wr[w].pc = "p_new"
    /\ writeBatch' = NewWriteBatch
    /\ wr' = [wr EXCEPT ![w].pc = "p_set"]
    /\ UNCHANGED <<db, closed, ret, nPuts, acked, committed, dup, flushedOk,
                   autoFlushed, itVars, blockVars, netVars, ackedIds, overlap>>

\* `err = s.writeBatch.SetEntry(...)`, and `return nil` unless the batch is
\* full.
PutSetEntry(w) ==
    /\ wr[w].pc = "p_set"
    /\ LET e == [id |-> wr[w].id, key |-> wr[w].key, value |-> wr[w].value]
           err == SetEntry(writeBatch, e)
       IN IF err = "ErrTxnTooBig"
          THEN /\ wr' = [wr EXCEPT ![w].pc = "p_flush"]
               /\ UNCHANGED <<writeBatch, ackedIds>>
          ELSE /\ writeBatch' = IF err = "nil" THEN Staged(writeBatch, e) ELSE writeBatch
               /\ wr' = Return(w, "nil")
               /\ ackedIds' = ackedIds \cup {wr[w].id}
    /\ UNCHANGED <<db, closed, ret, nPuts, acked, committed, dup, flushedOk,
                   autoFlushed, itVars, blockVars, netVars, overlap>>

\* `s.writeBatch.Flush()` of Put or of FlushPuts: the engine commits what the
\* batch holds, or fails.
FlushBatch(w, next) ==
    /\ \E ferr \in FlushOutcomes(writeBatch) :
         IF ferr # "nil"
         THEN /\ wr' = Return(w, ferr)
              /\ UNCHANGED <<db, writeBatch, committed, dup>>
         ELSE /\ db' = Flush(db, writeBatch)
              /\ committed' = committed \cup Ids(writeBatch)
              /\ dup' = (dup \/ (Ids(writeBatch) \cap committed # {}))
              /\ writeBatch' = Flushed(writeBatch)
              /\ wr' = [wr EXCEPT ![w].pc = next]
    /\ UNCHANGED <<closed, ret, nPuts, acked, flushedOk, autoFlushed, itVars,
                   blockVars, netVars, ackedIds, overlap>>

\* `if err := s.writeBatch.Flush(); err != nil { return err }`
PutFlush(w) ==
    /\ wr[w].pc = "p_flush"
    /\ FlushBatch(w, "p_new2")

\* `s.writeBatch = s.db.NewWriteBatch()` after the flush.
PutNewBatchAfterFlush(w) ==
    /\ wr[w].pc = "p_new2"
    /\ writeBatch' = NewWriteBatch
    /\ wr' = [wr EXCEPT ![w].pc = "p_set2"]
    /\ UNCHANGED <<db, closed, ret, nPuts, acked, committed, dup, flushedOk,
                   autoFlushed, itVars, blockVars, netVars, ackedIds, overlap>>

\* The second SetEntry: any error is returned.
PutSetEntryAgain(w) ==
    /\ wr[w].pc = "p_set2"
    /\ LET e == [id |-> wr[w].id, key |-> wr[w].key, value |-> wr[w].value]
           err == SetEntry(writeBatch, e)
       IN IF err # "nil"
          THEN /\ wr' = Return(w, "after txn too big")
               /\ UNCHANGED <<writeBatch, ackedIds>>
          ELSE /\ writeBatch' = Staged(writeBatch, e)
               /\ wr' = Return(w, "nil")
               /\ ackedIds' = ackedIds \cup {wr[w].id}
    /\ UNCHANGED <<db, closed, ret, nPuts, acked, committed, dup, flushedOk,
                   autoFlushed, itVars, blockVars, netVars, overlap>>

\* Caller w calls FlushPuts; the writes acknowledged so far are the ones it
\* is to make durable.
CallFlushPuts(w) ==
    /\ wr[w].pc = "idle"
    /\ wr' = [wr EXCEPT ![w] = [NoWrite EXCEPT !.pc = "f_nil", !.op = "FlushPuts",
                                               !.before = ackedIds]]
    /\ overlap' = (overlap \/ OtherRunning(w))
    /\ UNCHANGED <<storeVars, itVars, blockVars, netVars, ackedIds>>

\* `if s.writeBatch == nil { return nil }`
FlushTestNil(w) ==
    /\ wr[w].pc = "f_nil"
    /\ wr' = IF ~writeBatch.open THEN Return(w, "nil") ELSE [wr EXCEPT ![w].pc = "f_flush"]
    /\ UNCHANGED <<storeVars, itVars, blockVars, netVars, ackedIds, overlap>>

\* `err := s.writeBatch.Flush()`, returned when not nil.
FlushFlush(w) ==
    /\ wr[w].pc = "f_flush"
    /\ FlushBatch(w, "f_new")

\* `s.writeBatch = s.db.NewWriteBatch(); return nil`
FlushNewBatch(w) ==
    /\ wr[w].pc = "f_new"
    /\ writeBatch' = NewWriteBatch
    /\ wr' = Return(w, "nil")
    /\ UNCHANGED <<db, closed, ret, nPuts, acked, committed, dup, flushedOk,
                   autoFlushed, itVars, blockVars, netVars, ackedIds, overlap>>

NextRace ==
    \/ \E w \in Writers, k \in RaceKeys : CallPut(w, k)
    \/ \E w \in Writers : PutTestNil(w)
    \/ \E w \in Writers : PutNewBatch(w)
    \/ \E w \in Writers : PutSetEntry(w)
    \/ \E w \in Writers : PutFlush(w)
    \/ \E w \in Writers : PutNewBatchAfterFlush(w)
    \/ \E w \in Writers : PutSetEntryAgain(w)
    \/ \E w \in Writers : CallFlushPuts(w)
    \/ \E w \in Writers : FlushTestNil(w)
    \/ \E w \in Writers : FlushFlush(w)
    \/ \E w \in Writers : FlushNewBatch(w)

SpecRace == Init /\ [][NextRace]_vars

\* A FlushPuts that began after the Put of a write had returned nil has
\* itself returned nil, and the write is not durable.
LostWrite ==
    \E w \in Writers :
        /\ wr[w].op = "FlushPuts"
        /\ wr[w].pc = "idle"
        /\ wr[w].err = "nil"
        /\ wr[w].before \ committed # {}

C14_WitnessSequential ==
    /\ ~overlap
    /\ Cardinality(ackedIds) = 2
    /\ \E w \in Writers : wr[w].op = "FlushPuts" /\ wr[w].pc = "idle" /\ wr[w].before = ackedIds
    /\ ackedIds \subseteq committed

\* --------------------------------------------- netkv client and server
\* The client serializes each call into a request; the server translates it
\* into the call of the Store it wraps and answers with one reply frame, or
\* with a stream of KV frames closed by a terminal frame.

\* The error of a call as the frame carries it.
EncodeErr_NoNotFound(err) ==
    IF err = "nil" THEN [code |-> "OK", msg |-> ""]
    ELSE IF err = "ErrNotFound" THEN [code |-> "Unknown", msg |-> "not found"]
    ELSE [code |-> "Unknown", msg |-> err]

EncodeErr(err) ==
    IF err = "nil" THEN [code |-> "OK", msg |-> ""]
    ELSE IF err = "ErrNotFound" THEN [code |-> "NotFound", msg |-> ""]
    ELSE [code |-> "Unknown", msg |-> err]

\* The error the client returns for the status of a frame.
DecodeErr(st) ==
    IF st.code = "OK" THEN "nil"
    ELSE IF st.code = "NotFound" THEN "ErrNotFound"
    ELSE st.msg

ReplyFrame(val, err) ==
    [t |-> "reply", key |-> <<>>, value |-> val, status |-> EncodeErr(err)]

KVFrame(kv) == [t |-> "kv", key |-> kv.key, value |-> kv.value, status |-> EncodeErr("nil")]

\* The terminal frame for the terminal signal of the backend's Iterator.
TerminalFrame(signal) ==
    [t |-> "end", key |-> <<>>, value |-> <<>>,
     status |-> EncodeErr(IF signal = "finished" THEN "nil" ELSE signal)]

\* The client's previous call is over.
ConnIdle == req = NoReq /\ wire = <<>>

\* The client sends the request r.
Send(r) ==
    /\ req' = r
    /\ UNCHANGED <<storeVars, itVars, blockVars, raceVars, wire, sent, cliRet, cliPushed>>

ClientPut(k, v) ==
    /\ ConnIdle
    /\ nPuts < MaxPuts
    /\ Send([NoReq EXCEPT !.op = "Put", !.key = k, !.value = v])

ClientFlushPuts ==
    /\ ConnIdle
    /\ Send([NoReq EXCEPT !.op = "FlushPuts"])

ClientGet(k) ==
    /\ ConnIdle
    /\ Send([NoReq EXCEPT !.op = "Get", !.key = k])

\* A streaming call: the client builds its local Iterator and sends the call.
ClientScan(start, exclusiveEnd, limit) ==
    /\ ConnIdle
    /\ pc = "idle"
    /\ Send([NoReq EXCEPT !.op = "Scan",
                          !.call = [NoCall EXCEPT !.kind = "Scan", !.start = start,
                                                  !.end = exclusiveEnd, !.limit = limit]])

ClientPrefix(prefix) ==
    /\ ConnIdle
    /\ pc = "idle"
    /\ Send([NoReq EXCEPT !.op = "Prefix",
                          !.call = [NoCall EXCEPT !.kind = "Prefix", !.prefix = prefix]])

ClientBatchGet(keys) ==
    /\ ConnIdle
    /\ pc = "idle"
    /\ Send([NoReq EXCEPT !.op = "BatchGet",
                          !.call = [NoCall EXCEPT !.kind = "BatchGet", !.keys = keys]])

\* The request is a streaming call.
Streaming == req.op \in {"Scan", "Prefix", "BatchGet"}

\* The server answers a Put, FlushPuts or Get with the result of the Store.
Reply(val, err) ==
    /\ wire' = Append(wire, ReplyFrame(val, err))
    /\ req' = [req EXCEPT !.served = TRUE]
    /\ UNCHANGED <<itVars, blockVars, raceVars, sent, cliRet, cliPushed>>

ServerPut ==
    /\ req.op = "Put"
    /\ ~req.served
    /\ StorePut(req.key, req.value)
    /\ Reply(<<>>, ret'.err)

ServerFlushPuts ==
    /\ req.op = "FlushPuts"
    /\ ~req.served
    /\ StoreFlushPuts
    /\ Reply(<<>>, ret'.err)

ServerGet ==
    /\ req.op = "Get"
    /\ ~req.served
    /\ StoreGet(req.key)
    /\ Reply(ret'.val, ret'.err)

\* The server starts the streaming call on the Store.
ServerStream ==
    /\ Streaming
    /\ NewIterator(req.call)

\* The server's loop over the backend's Iterator: Next, then send the item.
ServerNext ==
    /\ Streaming
    /\ sent = Len(seen)
    /\ ConsumerNext

ServerSend ==
    /\ Streaming
    /\ sent < Len(seen)
    /\ Len(wire) < WireCap
    /\ wire' = Append(wire, KVFrame(seen[sent + 1]))
    /\ sent' = sent + 1
    /\ UNCHANGED <<storeVars, itVars, blockVars, raceVars, req, cliRet, cliPushed>>

\* After the loop the server forwards the terminal signal.
ServerSendEnd ==
    /\ Streaming
    /\ consTerm # "none"
    /\ sent = Len(seen)
    /\ ~req.served
    /\ Len(wire) < WireCap
    /\ wire' = Append(wire, TerminalFrame(consTerm))
    /\ req' = [req EXCEPT !.served = TRUE]
    /\ UNCHANGED <<storeVars, itVars, blockVars, raceVars, sent, cliRet, cliPushed>>

\* The client reads the reply of a Put, FlushPuts or Get and returns.
ClientRecvReply ==
    /\ wire # <<>>
    /\ Head(wire).t = "reply"
    /\ cliRet' = [NoRet EXCEPT !.op = req.op, !.key = req.key, !.val = Head(wire).value,
                               !.err = DecodeErr(Head(wire).status)]
    /\ wire' = Tail(wire)
    /\ req' = NoReq
    /\ UNCHANGED <<storeVars, itVars, blockVars, raceVars, sent, cliPushed>>

\* The client's production path reads a KV frame and pushes the item.
ClientRecvKV ==
    /\ wire # <<>>
    /\ Head(wire).t = "kv"
    /\ cliPushed' = Append(cliPushed, Item(Head(wire).key, Head(wire).value))
    /\ wire' = Tail(wire)
    /\ UNCHANGED <<storeVars, itVars, blockVars, raceVars, req, sent, cliRet>>

\* It reads the terminal frame and pushes the terminal signal.
ClientRecvEnd ==
    /\ wire # <<>>
    /\ Head(wire).t = "end"
    /\ cliPushed' = Append(cliPushed,
                           IF DecodeErr(Head(wire).status) = "nil"
                           THEN Terminal("finished", "nil")
                           ELSE Terminal("error", DecodeErr(Head(wire).status)))
    /\ wire' = Tail(wire)
    /\ req' = NoReq
    /\ UNCHANGED <<storeVars, itVars, blockVars, raceVars, sent, cliRet>>

NetVals == {<<>>, <<7>>}

NetKeys == {<<1>>, <<1, 2>>}

NetLimits == {0, 1}

NetRequests == {<< <<1>>, <<1, 2>> >>, << <<1, 2>>, <<1>> >>}

NextNet ==
    \/ \E k \in StagedKeys, v \in NetVals : ClientPut(k, v)
    \/ ClientFlushPuts
    \/ \E k \in NetKeys : ClientGet(k)
    \/ \E limit \in NetLimits : ClientScan(<<>>, <<3>>, limit)
    \/ ClientPrefix(<<1>>)
    \/ \E keys \in NetRequests : ClientBatchGet(keys)
    \/ ServerPut
    \/ ServerFlushPuts
    \/ ServerGet
    \/ ServerStream
    \/ Producer
    \/ ServerNext
    \/ ServerSend
    \/ ServerSendEnd
    \/ ClientRecvReply
    \/ ClientRecvKV
    \/ ClientRecvEnd

SpecNet == InitRead /\ [][NextNet]_vars

\* No Put, FlushPuts or Get is on its way between client and server.
NoPointCallInFlight == req.op \notin {"Put", "FlushPuts", "Get"}

C15_WitnessNotFound ==
    /\ req = NoReq
    /\ cliRet.op = "Get"
    /\ cliRet.err = "ErrNotFound"

\* A BatchGet through the client that ended with the Store's error.
C15_WitnessError ==
    /\ req = NoReq
    /\ itCall.kind = "BatchGet"
    /\ Len(cliPushed) = 2
    /\ cliPushed[2] = Terminal("error", "ErrKeyNotFound")

====
